---- MODULE Spec2Model ----
(***************************************************************************)
(* sqlai UI: the MCP tool client with retry (callMCPServerWithRetry), the  *)
(* API routes built on it, and the page's connection / scan state machine. *)
(***************************************************************************)
EXTENDS Integers, Sequences, FiniteSets, Bags, TLC

(***************************************************************************)
(* Bounds of the model.                                                    *)
(***************************************************************************)
\* largest maxRetries argument tried
MaxRetriesArg == 3
\* scan-start and scan-progress requests in flight at once
MaxInFlight == 3
\* query submissions accepted in one run
MaxQueries == 2

(***************************************************************************)
(* Program constants.                                                      *)
(***************************************************************************)
\* maxRetries = 3, the default parameter value
DefaultMaxRetries == 3
\* Math.pow(2, attempt) * 1000: base and milliseconds per second
BackoffBase == 2
MsPerSecond == 1000
\* progress >= 100 ends the scan
ProgressDone == 100
\* scanProgress?: number, while it is undefined
NoProgress == -1
\* scanPollingInterval.current = null
NoTimer == 0
\* { status: 500 }, and the status of a response built by NextResponse.json(body)
HttpServerError == 500
HttpOk == 200

NULL == "null"
UNDEFINED == "undefined"

VARIABLES
    \* ---- one call of callMCPServerWithRetry
    toolName,      \* the toolName argument
    maxRetries,    \* the maxRetries argument
    attempt,       \* the loop variable
    attempts,      \* how many times the try block was entered
    pc,            \* "idle" | "try" | "backoff" | "done"
    errors,        \* the error caught in each failed attempt, in order
    delays,        \* the setTimeout delays waited, in ms, in order
    outcome,       \* the value returned or the error thrown
    \* ---- the page (React state and refs)
    dataSource,
    dataSrcId,
    connectionForm,
    isConnecting,
    isScanning,
    scanPollingInterval,
    timers,        \* the active setInterval timers: [id, jobId]
    cleanup,       \* whether the last run of the polling effect returned a cleanup
    \* ---- fetches in flight, each a bag of requests
    connectReqs,
    scanReqs,
    pollReqs,
    \* ---- the remote service
    issued,        \* the job ids scan_datasource has handed out
    finished,      \* the job ids a poll response has reported progress >= 100 for
    \* ---- the page: the conversation
    messages,
    input,
    isLoading,
    queryReqs,     \* fetches of /api/query in flight
    \* ---- what the last step did
    lastOp,        \* the handler (and its branch) that ran
    answered,      \* the body of the request whose response it handled
    settled,       \* how the tool call behind the response it handled settled
    called,        \* that tool call: the tool and the arguments the route passed
    alert          \* the message it showed with alert(), "" when none

retryVars == <<toolName, maxRetries, attempt, attempts, pc, errors, delays, outcome>>
pageVars == <<dataSource, dataSrcId, connectionForm, isConnecting, isScanning,
              scanPollingInterval, timers, cleanup, connectReqs, scanReqs,
              pollReqs, issued, finished, lastOp, answered, settled, called, alert>>
\* the part of pageVars that is not the record of the last step
pageState == <<dataSource, dataSrcId, connectionForm, isConnecting, isScanning,
               scanPollingInterval, timers, cleanup, connectReqs, scanReqs,
               pollReqs, issued, finished>>
queryVars == <<messages, input, isLoading, queryReqs>>
vars == <<toolName, maxRetries, attempt, attempts, pc, errors, delays, outcome,
          dataSource, dataSrcId, connectionForm, isConnecting, isScanning,
          scanPollingInterval, timers, cleanup, connectReqs, scanReqs,
          pollReqs, issued, finished, lastOp, answered, settled, called, alert,
          messages, input, isLoading, queryReqs>>

(***************************************************************************)
(* callMCPServerWithRetry                                                  *)
(***************************************************************************)
\* the tools the routes ask for
ToolNames == {"connect_datasource", "scan_datasource", "scan_progress", "query"}

\* what listTools can answer: every tool, or all but one of them
ToolLists == {ToolNames} \cup { ToolNames \ {t} : t \in ToolNames }

\* client.connect, listTools or callTool rejecting: a transport failure
TransportErrors == {"ECONNREFUSED", "ETIMEDOUT"}

\* new Error(`Tool '${toolName}' not found on MCP server`)
ToolNotFound(t) == "Tool '" \o t \o "' not found on MCP server"

\* what the remote service puts under structuredContent, per tool
DataSrcIds == {"ds_1"}
ScanTimes == {"t0"}
JobIds == {"job_1", "job_2"}
Progresses == {0, 30, 100}
Timestamps == {"t1"}
Sqls == {"SELECT 1", "SELECT 2"}
Datas == {"[]", "[{n: 1}]"}

NoContent == [none |-> TRUE]

StructuredContents(t) ==
    IF t = "connect_datasource"
    THEN [data_src_id : DataSrcIds, scan_time : ScanTimes]
    ELSE IF t = "scan_datasource"
    THEN [job_id : JobIds]
    ELSE IF t = "scan_progress"
    THEN [progress : Progresses, timestamp : Timestamps]
    ELSE [sql : Sqls, data : Datas]

\* what callTool resolves to: the tool's result with its structuredContent
\* envelope, or without one (a tool that failed answers isError and no envelope)
ToolResults(t) ==
    { [isError |-> FALSE, envelope |-> TRUE, structuredContent |-> c] :
          c \in StructuredContents(t) }
    \cup { [isError |-> e, envelope |-> FALSE, structuredContent |-> NoContent] :
          e \in BOOLEAN }

\* how a call of callMCPServerWithRetry settles
Pending == [kind |-> "pending"]
Returned(r) == [kind |-> "returned", result |-> r]
Thrown(e) == [kind |-> "thrown", error |-> e]
ReturnedUndefined == [kind |-> "undefined"]

\* one pass through the try block: connect, listTools, find, callTool
\*   conn, list, callr: "ok" or the transport error of that await
\*   tools: the list listTools answers; res: what callTool resolves to
\* mutant: a result flagged isError is thrown like a failed call
TryBlockThrowsOnIsError(t, conn, list, tools, callr, res) ==
    IF conn # "ok" THEN [threw |-> TRUE, error |-> conn, result |-> NoContent]
    ELSE IF list # "ok" THEN [threw |-> TRUE, error |-> list, result |-> NoContent]
    ELSE IF t \notin tools THEN [threw |-> TRUE, error |-> ToolNotFound(t), result |-> NoContent]
    ELSE IF callr # "ok" THEN [threw |-> TRUE, error |-> callr, result |-> NoContent]
    ELSE IF res.isError THEN [threw |-> TRUE, error |-> "isError", result |-> NoContent]
    ELSE [threw |-> FALSE, error |-> NULL, result |-> res]

TryBlock(t, conn, list, tools, callr, res) ==
    IF conn # "ok" THEN [threw |-> TRUE, error |-> conn, result |-> NoContent]
    ELSE IF list # "ok" THEN [threw |-> TRUE, error |-> list, result |-> NoContent]
    ELSE IF t \notin tools THEN [threw |-> TRUE, error |-> ToolNotFound(t), result |-> NoContent]
    ELSE IF callr # "ok" THEN [threw |-> TRUE, error |-> callr, result |-> NoContent]
    ELSE [threw |-> FALSE, error |-> NULL, result |-> res]

\* Math.pow(2, attempt) * 1000
RECURSIVE Pow(_, _)
Pow(b, n) == IF n = 0 THEN 1 ELSE b * Pow(b, n - 1)

\* mutant: the exponent one too small
BackoffMsOffByOne(a) == Pow(BackoffBase, a - 1) * MsPerSecond

BackoffMs(a) == Pow(BackoffBase, a) * MsPerSecond

\* mutant: the test one attempt late
IsFinalAttemptOffByOne(a, m) == a = m + 1

\* mutant: the catch never re-throws
IsFinalAttemptNever(a, m) == FALSE

\* the catch block's test: attempt === maxRetries
IsFinalAttempt(a, m) == a = m

\* mutant: the first attempt's error kept and thrown at the end
RethrownFirst(errs) == errs[1]

\* the error the final catch re-throws
Rethrown(errs) == errs[Len(errs)]

RetryInit ==
    /\ toolName = NULL
    /\ maxRetries = DefaultMaxRetries
    /\ attempt = 0
    /\ attempts = 0
    /\ pc = "idle"
    /\ errors = <<>>
    /\ delays = <<>>
    /\ outcome = Pending

\* mutant: the loop body is entered without the test attempt <= maxRetries
InvokeAlwaysTries(t, m) ==
    /\ pc = "idle"
    /\ toolName' = t
    /\ maxRetries' = m
    /\ attempt' = 1
    /\ pc' = "try"
    /\ UNCHANGED <<outcome, attempts, errors, delays>>
    /\ UNCHANGED pageVars
    /\ UNCHANGED queryVars

\* entering the function: let attempt = 1; attempt <= maxRetries
Invoke(t, m) ==
    /\ pc = "idle"
    /\ toolName' = t
    /\ maxRetries' = m
    /\ attempt' = 1
    /\ IF 1 <= m
       THEN pc' = "try" /\ UNCHANGED outcome
       ELSE pc' = "done" /\ outcome' = ReturnedUndefined
    /\ UNCHANGED <<attempts, errors, delays>>
    /\ UNCHANGED pageVars
    /\ UNCHANGED queryVars

\* mutant: a failed attempt that is not the last starts the next one at once,
\* without the setTimeout
AttemptNoWait(conn, list, tools, callr, res) ==
    /\ pc = "try"
    /\ attempts' = attempts + 1
    /\ LET r == TryBlock(toolName, conn, list, tools, callr, res) IN
       IF ~r.threw
       THEN /\ pc' = "done"
            /\ outcome' = Returned(r.result)
            /\ UNCHANGED <<errors, delays, attempt>>
       ELSE /\ errors' = Append(errors, r.error)
            /\ IF IsFinalAttempt(attempt, maxRetries)
               THEN /\ pc' = "done"
                    /\ outcome' = Thrown(Rethrown(errors'))
                    /\ UNCHANGED <<delays, attempt>>
               ELSE /\ pc' = "try"
                    /\ attempt' = attempt + 1
                    /\ UNCHANGED <<delays, outcome>>
    /\ UNCHANGED <<toolName, maxRetries>>
    /\ UNCHANGED pageVars
    /\ UNCHANGED queryVars

\* mutant: the loop goes on after a successful attempt, the last result wins
AttemptContinuesAfterSuccess(conn, list, tools, callr, res) ==
    /\ pc = "try"
    /\ attempts' = attempts + 1
    /\ LET r == TryBlock(toolName, conn, list, tools, callr, res) IN
       IF ~r.threw
       THEN /\ outcome' = Returned(r.result)
            /\ IF IsFinalAttempt(attempt, maxRetries)
               THEN pc' = "done" /\ UNCHANGED attempt
               ELSE pc' = "try" /\ attempt' = attempt + 1
            /\ UNCHANGED <<errors, delays>>
       ELSE /\ errors' = Append(errors, r.error)
            /\ UNCHANGED attempt
            /\ IF IsFinalAttempt(attempt, maxRetries)
               THEN /\ pc' = "done"
                    /\ outcome' = Thrown(Rethrown(errors'))
                    /\ UNCHANGED delays
               ELSE /\ pc' = "backoff"
                    /\ delays' = Append(delays, BackoffMs(attempt))
                    /\ UNCHANGED outcome
    /\ UNCHANGED <<toolName, maxRetries>>
    /\ UNCHANGED pageVars
    /\ UNCHANGED queryVars

\* one iteration of the loop body up to the return, the throw or the setTimeout
Attempt(conn, list, tools, callr, res) ==
    /\ pc = "try"
    /\ attempts' = attempts + 1
    /\ LET r == TryBlock(toolName, conn, list, tools, callr, res) IN
       IF ~r.threw
       THEN /\ pc' = "done"
            /\ outcome' = Returned(r.result)
            /\ UNCHANGED <<errors, delays>>
       ELSE /\ errors' = Append(errors, r.error)
            /\ IF IsFinalAttempt(attempt, maxRetries)
               THEN /\ pc' = "done"
                    /\ outcome' = Thrown(Rethrown(errors'))
                    /\ UNCHANGED delays
               ELSE /\ pc' = "backoff"
                    /\ delays' = Append(delays, BackoffMs(attempt))
                    /\ UNCHANGED outcome
    /\ UNCHANGED <<toolName, maxRetries, attempt>>
    /\ UNCHANGED pageVars
    /\ UNCHANGED queryVars

\* the timer of the backoff fires: attempt++, attempt <= maxRetries
Backoff ==
    /\ pc = "backoff"
    /\ attempt' = attempt + 1
    /\ IF attempt + 1 <= maxRetries
       THEN pc' = "try" /\ UNCHANGED outcome
       ELSE pc' = "done" /\ outcome' = ReturnedUndefined
    /\ UNCHANGED <<toolName, maxRetries, attempts, errors, delays>>
    /\ UNCHANGED pageVars
    /\ UNCHANGED queryVars

\* every way the remote service can answer one attempt
RetryNext ==
    \/ \E t \in ToolNames, m \in 0..MaxRetriesArg : Invoke(t, m)
    \/ \E conn \in {"ok"} \cup TransportErrors,
          list \in {"ok"} \cup TransportErrors,
          tools \in ToolLists,
          callr \in {"ok"} \cup TransportErrors,
          res \in ToolResults(toolName) :
            Attempt(conn, list, tools, callr, res)
    \/ Backoff

(***************************************************************************)
(* The API routes: what each answers for a settled tool call               *)
(***************************************************************************)
\* how callMCPServerWithRetry(t, args), with the default maxRetries, can settle
Settlements(t) ==
    { Thrown(e) : e \in TransportErrors \cup {ToolNotFound(t)} }
    \cup { Returned(r) : r \in ToolResults(t) }

\* the call of callMCPServerWithRetry a route makes, none when no route ran
NoCall == [tool |-> NULL]
ToolCall(t, args) == [tool |-> t, args |-> args]

\* const { type, ...conn_params } = body; the arguments { type, conn_params }
ConnectToolArgs(body) ==
    [type |-> body.type,
     conn_params |-> [k \in DOMAIN body \ {"type"} |-> body[k]]]

\* const { dataSrcId: data_src_id } = body; the arguments { data_src_id }
ScanToolArgs(body) == [data_src_id |-> body.dataSrcId]

\* const { jobId: job_id } = body; the arguments { job_id }
ProgressToolArgs(body) == [job_id |-> body.jobId]

\* const { dataSrcId: data_src_id, query: qry } = body; the arguments { data_src_id, qry }
QueryToolArgs(body) == [data_src_id |-> body.dataSrcId, qry |-> body.query]

\* a response of a route, as fetch shows it to the page:
\*   ok: response.ok; parses: response.json() resolves; the body's fields
RouteError(msg) ==
    [ok |-> FALSE, parses |-> TRUE, error |-> msg, dataSrcId |-> NULL,
     lastScanTime |-> NULL, jobId |-> NULL, progress |-> NoProgress,
     timestamp |-> NULL]

RouteOk ==
    [ok |-> TRUE, parses |-> TRUE, error |-> NULL, dataSrcId |-> NULL,
     lastScanTime |-> NULL, jobId |-> NULL, progress |-> NoProgress,
     timestamp |-> NULL]

\* destructuring result?.structuredContent when it is undefined
DestructureError == "TypeError: Cannot destructure property of undefined"

\* POST /api/connect-datasource
ConnectRoute(s) ==
    IF s.kind = "thrown" THEN RouteError(s.error)
    ELSE IF ~s.result.envelope THEN RouteError(DestructureError)
    ELSE [RouteOk EXCEPT !.dataSrcId = s.result.structuredContent.data_src_id,
                         !.lastScanTime = s.result.structuredContent.scan_time]

\* POST /api/scan-datasource
ScanRoute(s) ==
    IF s.kind = "thrown" THEN RouteError(s.error)
    ELSE IF ~s.result.envelope THEN RouteError(DestructureError)
    ELSE [RouteOk EXCEPT !.jobId = s.result.structuredContent.job_id]

\* POST /api/scan-progress: NextResponse.json(result?.structuredContent); with
\* no envelope that is NextResponse.json(undefined), which either throws (the
\* catch answers 500) or answers an empty body that response.json() rejects
ProgressRoute(s) ==
    IF s.kind = "thrown" THEN {RouteError(s.error)}
    ELSE IF ~s.result.envelope
    THEN {RouteError("Value is not JSON serializable"),
          [RouteOk EXCEPT !.parses = FALSE]}
    ELSE {[RouteOk EXCEPT !.progress = s.result.structuredContent.progress,
                          !.timestamp = s.result.structuredContent.timestamp]}

\* POST /api/query: the success body; the catch answers {error} with 500;
\* without the envelope the handler falls through its empty else and returns
\* no Response at all, to which the framework answers 500 with no JSON body
QueryRoute(s, body) ==
    IF s.kind = "thrown"
    THEN [ok |-> FALSE, status |-> HttpServerError, parses |-> TRUE,
          error |-> s.error, data |-> UNDEFINED,
          sql |-> UNDEFINED, query |-> UNDEFINED, response |-> UNDEFINED]
    ELSE IF ~s.result.envelope
    THEN [ok |-> FALSE, status |-> HttpServerError, parses |-> FALSE,
          error |-> UNDEFINED, data |-> UNDEFINED,
          sql |-> UNDEFINED, query |-> UNDEFINED, response |-> UNDEFINED]
    ELSE [ok |-> TRUE, status |-> HttpOk, parses |-> TRUE, error |-> UNDEFINED,
          data |-> s.result.structuredContent.data,
          sql |-> s.result.structuredContent.sql,
          query |-> body.query, response |-> UNDEFINED]

\* what the route behind a tool can answer to a request, given how the tool
\* call settled
RouteResponses(t, s, body) ==
    CASE t = "connect_datasource" -> {ConnectRoute(s)}
      [] t = "scan_datasource" -> {ScanRoute(s)}
      [] t = "scan_progress" -> ProgressRoute(s)
      [] t = "query" -> {QueryRoute(s, body)}

(***************************************************************************)
(* The page                                                                *)
(***************************************************************************)
\* what the user can type into the connection form
FormTypes == {"mysql"}
FormHosts == {"10.0.0.5:3306"}
FormUsernames == {"a"}
FormPasswords == {"secret"}

EmptyForm == [type |-> "", host |-> "", username |-> "", password |-> ""]

\* useState<DataSourceConnection>({type: "", host: "", username: "", connected: false})
InitialDataSource ==
    [type |-> "", host |-> "", username |-> "", connected |-> FALSE,
     lastScanTime |-> NULL, scanJobId |-> NULL, scanProgress |-> NoProgress,
     scanStatus |-> NULL]

\* setInterval's handle: a fresh one
NewTimerId(tm) == CHOOSE n \in 1..(Cardinality(tm) + 1) : \A x \in tm : x.id # n

\* mutant: the ref forgotten, the interval left running
ClearPollingKeepsTimer(tm, ref) == [timers |-> tm, ref |-> NoTimer]

\* clearInterval(scanPollingInterval.current); scanPollingInterval.current = null
ClearPolling(tm, ref) ==
    IF ref # NoTimer
    THEN [timers |-> {x \in tm : x.id # ref}, ref |-> NoTimer]
    ELSE [timers |-> tm, ref |-> ref]

\* the polling effect after a render: it runs when dataSource.scanProgress
\* differs from the previous render's; the previous run's cleanup comes first
\* mutant: the interval is set once and not again after a cleanup
PollingEffectNoRestart(old, new, tm, ref, cl) ==
    IF old.scanProgress = new.scanProgress
    THEN [timers |-> tm, ref |-> ref, cleanup |-> cl]
    ELSE LET c == IF cl THEN ClearPolling(tm, ref) ELSE [timers |-> tm, ref |-> ref]
         IN  IF new.scanJobId # NULL /\ new.scanStatus = "in_progress" /\ ~cl
             THEN LET id == NewTimerId(c.timers)
                  IN  [timers |-> c.timers \cup {[id |-> id, jobId |-> new.scanJobId]},
                       ref |-> id, cleanup |-> TRUE]
             ELSE [timers |-> c.timers, ref |-> c.ref, cleanup |-> FALSE]

PollingEffect(old, new, tm, ref, cl) ==
    IF old.scanProgress = new.scanProgress
    THEN [timers |-> tm, ref |-> ref, cleanup |-> cl]
    ELSE LET c == IF cl THEN ClearPolling(tm, ref) ELSE [timers |-> tm, ref |-> ref]
         IN  IF new.scanJobId # NULL /\ new.scanStatus = "in_progress"
             THEN LET id == NewTimerId(c.timers)
                  IN  [timers |-> c.timers \cup {[id |-> id, jobId |-> new.scanJobId]},
                       ref |-> id, cleanup |-> TRUE]
             ELSE [timers |-> c.timers, ref |-> c.ref, cleanup |-> FALSE]

NoRequest == [none |-> TRUE]

\* a fetch leaving, and its response arriving
Sent(reqs, r) == reqs (+) SetToBag({r})
Answered(reqs, r) == reqs (-) SetToBag({r})
InFlight(reqs) == BagToSet(reqs)

\* the model lets one more scan-start or scan-progress fetch leave
MayFetch == BagCardinality(scanReqs) + BagCardinality(pollReqs) < MaxInFlight

PageInit ==
    /\ dataSource = InitialDataSource
    /\ dataSrcId = NULL
    /\ connectionForm = EmptyForm
    /\ isConnecting = FALSE
    /\ isScanning = FALSE
    /\ scanPollingInterval = NoTimer
    /\ timers = {}
    /\ cleanup = FALSE
    /\ connectReqs = EmptyBag
    /\ scanReqs = EmptyBag
    /\ pollReqs = EmptyBag
    /\ issued = {}
    /\ finished = {}
    /\ lastOp = "mount"
    /\ answered = NoRequest
    /\ settled = Pending
    /\ called = NoCall
    /\ alert = ""

QueryInit ==
    /\ messages = <<>>
    /\ input = <<>>
    /\ isLoading = FALSE
    /\ queryReqs = EmptyBag

Init == RetryInit /\ PageInit /\ QueryInit

\* ---- what the page renders
\* {!dataSource?.connected && (<form onSubmit={handleConnect}>
ConnectFormRendered == ~dataSource.connected

\* the type and host inputs are required; the submit button is disabled={isConnecting}
ConnectControlAvailable ==
    /\ ConnectFormRendered
    /\ ~isConnecting
    /\ connectionForm.type # ""
    /\ connectionForm.host # ""

\* {dataSource && dataSource.connected && ( ... the Scan and Disconnect buttons
ConnectedPanelRendered == dataSource.connected

\* disabled={isScanning || dataSource.scanStatus === "in_progress"}
ScanControlAvailable ==
    /\ ConnectedPanelRendered
    /\ ~(isScanning \/ dataSource.scanStatus = "in_progress")

\* ---- the form's onChange handlers
EditForm(field, v) ==
    /\ ConnectFormRendered
    /\ connectionForm' = [connectionForm EXCEPT ![field] = v]
    /\ lastOp' = "editForm"
    /\ answered' = NoRequest
    /\ settled' = Pending
    /\ called' = NoCall
    /\ alert' = ""
    /\ UNCHANGED retryVars
    /\ UNCHANGED queryVars
    /\ UNCHANGED <<dataSource, dataSrcId, isConnecting, isScanning,
                   scanPollingInterval, timers, cleanup, connectReqs, scanReqs,
                   pollReqs, issued, finished>>

\* body: JSON.stringify(connectionForm)
ConnectRequestBody(form) == form

\* ---- handleConnect, up to the await of fetch
HandleConnect ==
    /\ isConnecting' = TRUE
    /\ connectReqs' = Sent(connectReqs, [body |-> ConnectRequestBody(connectionForm),
                                         connectionForm |-> connectionForm])
    /\ lastOp' = "handleConnect"
    /\ answered' = NoRequest
    /\ settled' = Pending
    /\ called' = NoCall
    /\ alert' = ""
    /\ UNCHANGED retryVars
    /\ UNCHANGED queryVars
    /\ UNCHANGED <<dataSource, dataSrcId, connectionForm, isScanning,
                   scanPollingInterval, timers, cleanup, scanReqs, pollReqs,
                   issued, finished>>

\* setDataSource({type, host, username, connected: true, lastScanTime})
ConnectedDataSource(form, resp) ==
    [type |-> form.type, host |-> form.host, username |-> form.username,
     connected |-> TRUE, lastScanTime |-> resp.lastScanTime,
     scanJobId |-> NULL, scanProgress |-> NoProgress, scanStatus |-> NULL]

\* mutant: the password left in the form
FormAfterConnectKept(form) == form

\* setConnectionForm({ ...connectionForm, password: "" })
FormAfterConnect(form) == [form EXCEPT !.password = ""]

\* the form a failed connect leaves: the catch does not touch it
FormAfterFailedConnect(form) == form

\* mutant: the status of the response not looked at
ResponseOkUnchecked(resp) == TRUE

\* if (!response.ok) throw new Error(...), in handleConnect and in handleScan
ResponseOk(resp) == resp.ok

\* ---- handleConnect from the response on, for the request req in flight
ConnectResponse(req, s) ==
    /\ req \in InFlight(connectReqs)
    /\ LET resp == ConnectRoute(s)
       IN  /\ connectReqs' = Answered(connectReqs, req)
           /\ IF ~ResponseOk(resp)
              THEN /\ alert' = "Connection failed"
                   /\ lastOp' = "connectFailed"
                   /\ connectionForm' = FormAfterFailedConnect(connectionForm)
                   /\ UNCHANGED <<dataSource, dataSrcId, scanPollingInterval,
                                  timers, cleanup>>
              ELSE LET ds == ConnectedDataSource(req.connectionForm, resp)
                       e == PollingEffect(dataSource, ds, timers,
                                          scanPollingInterval, cleanup)
                   IN  /\ dataSrcId' = resp.dataSrcId
                       /\ dataSource' = ds
                       /\ connectionForm' = FormAfterConnect(req.connectionForm)
                       /\ timers' = e.timers
                       /\ scanPollingInterval' = e.ref
                       /\ cleanup' = e.cleanup
                       /\ alert' = ""
                       /\ lastOp' = "connectOk"
           /\ isConnecting' = FALSE
    /\ answered' = req.body
    /\ settled' = s
    /\ called' = ToolCall("connect_datasource", ConnectToolArgs(req.body))
    /\ UNCHANGED <<isScanning, scanReqs, pollReqs, issued, finished>>
    /\ UNCHANGED retryVars
    /\ UNCHANGED queryVars

\* what handleDisconnect leaves of the record: // setDataSource(null)
DataSourceAfterDisconnect(ds) == ds

\* ---- handleDisconnect
HandleDisconnect ==
    /\ connectionForm' = EmptyForm
    /\ dataSource' = DataSourceAfterDisconnect(dataSource)
    /\ lastOp' = "handleDisconnect"
    /\ answered' = NoRequest
    /\ settled' = Pending
    /\ called' = NoCall
    /\ alert' = ""
    /\ UNCHANGED retryVars
    /\ UNCHANGED queryVars
    /\ UNCHANGED <<dataSrcId, isConnecting, isScanning, scanPollingInterval,
                   timers, cleanup, connectReqs, scanReqs, pollReqs, issued,
                   finished>>

\* mutant: the guard left out
ScanNeverRejected(ds) == FALSE

\* if (!dataSource?.connected) { alert(...); return }
ScanRejected(ds) == ~ds.connected

\* body: JSON.stringify({ dataSrcId: dataSrcId.current })
ScanRequestBody(id) == [dataSrcId |-> id]

\* ---- handleScan, up to the await of fetch
HandleScan ==
    /\ IF ScanRejected(dataSource)
       THEN /\ alert' = "Please connect to a database first"
            /\ lastOp' = "scanRejected"
            /\ UNCHANGED scanReqs
       ELSE /\ MayFetch
            /\ scanReqs' = Sent(scanReqs, [body |-> ScanRequestBody(dataSrcId),
                                           dataSource |-> dataSource])
            /\ alert' = ""
            /\ lastOp' = "handleScan"
    /\ answered' = NoRequest
    /\ settled' = Pending
    /\ called' = NoCall
    /\ UNCHANGED <<dataSource, dataSrcId, connectionForm, isConnecting,
                   isScanning, scanPollingInterval, timers, cleanup,
                   connectReqs, pollReqs, issued, finished>>
    /\ UNCHANGED retryVars
    /\ UNCHANGED queryVars

\* mutant: scanProgress not reset
ScanningDataSourceKeepsProgress(ds, resp) ==
    [ds EXCEPT !.scanJobId = resp.jobId, !.scanStatus = "in_progress"]

\* setDataSource({ ...dataSource, scanJobId, scanProgress: 0, scanStatus: "in_progress" })
ScanningDataSource(ds, resp) ==
    [ds EXCEPT !.scanJobId = resp.jobId, !.scanProgress = 0,
               !.scanStatus = "in_progress"]

\* the remote service starts a new job for every scan and names it afresh
JobIdFresh(s, given) ==
    (s.kind = "returned" /\ s.result.envelope) =>
        s.result.structuredContent.job_id \notin given

\* ---- handleScan from the response on, for the request req in flight
ScanResponse(req, s) ==
    /\ req \in InFlight(scanReqs)
    /\ JobIdFresh(s, issued)
    /\ LET resp == ScanRoute(s)
       IN  /\ scanReqs' = Answered(scanReqs, req)
           /\ IF ~ResponseOk(resp)
              THEN /\ alert' = "Scan failed"
                   /\ lastOp' = "scanFailed"
                   /\ UNCHANGED <<dataSource, isScanning, scanPollingInterval,
                                  timers, cleanup, issued>>
              ELSE LET ds == ScanningDataSource(req.dataSource, resp)
                       e == PollingEffect(dataSource, ds, timers,
                                          scanPollingInterval, cleanup)
                   IN  /\ dataSource' = ds
                       /\ isScanning' = TRUE
                       /\ timers' = e.timers
                       /\ scanPollingInterval' = e.ref
                       /\ cleanup' = e.cleanup
                       /\ issued' = issued \cup {resp.jobId}
                       /\ alert' = ""
                       /\ lastOp' = "scanOk"
    /\ answered' = req.body
    /\ settled' = s
    /\ called' = ToolCall("scan_datasource", ScanToolArgs(req.body))
    /\ UNCHANGED <<dataSrcId, connectionForm, isConnecting, connectReqs, pollReqs,
                   finished>>
    /\ UNCHANGED retryVars
    /\ UNCHANGED queryVars

\* body: JSON.stringify({ jobId: dataSource.scanJobId })
PollRequestBody(id) == [jobId |-> id]

\* a job's progress at the remote service never goes back: what the service
\* has reported of the job by the time a request leaves, it reports at least
\* that to the request
ProgressFloor(ds, id) ==
    IF ds.scanJobId = id /\ ds.scanProgress # NoProgress THEN ds.scanProgress ELSE 0

ProgressServed(req, resp) == (resp.parses /\ resp.ok) => resp.progress >= req.floor

\* ---- a tick of an active interval: the fetch of /api/scan-progress
PollTick(t) ==
    /\ t \in timers
    /\ MayFetch
    /\ pollReqs' = Sent(pollReqs, [body |-> PollRequestBody(t.jobId),
                                   floor |-> ProgressFloor(dataSource, t.jobId)])
    /\ lastOp' = "pollTick"
    /\ answered' = NoRequest
    /\ settled' = Pending
    /\ called' = NoCall
    /\ alert' = ""
    /\ UNCHANGED retryVars
    /\ UNCHANGED queryVars
    /\ UNCHANGED <<dataSource, dataSrcId, connectionForm, isConnecting,
                   isScanning, scanPollingInterval, timers, cleanup,
                   connectReqs, scanReqs, issued, finished>>

\* mutant: the status left alone at progress >= 100
PolledDataSourceNeverCompletes(prev, resp) ==
    [prev EXCEPT !.scanProgress = resp.progress]

\* the updater of setDataSource in the interval callback
\* mutant: the poll response also clears the stored job
PolledDataSourceDropsJob(prev, resp) ==
    IF resp.progress >= ProgressDone
    THEN [prev EXCEPT !.scanProgress = resp.progress,
                      !.scanStatus = "completed",
                      !.lastScanTime = resp.timestamp,
                      !.scanJobId = NULL]
    ELSE [prev EXCEPT !.scanProgress = resp.progress]

PolledDataSource(prev, resp) ==
    IF resp.progress >= ProgressDone
    THEN [prev EXCEPT !.scanProgress = resp.progress,
                      !.scanStatus = "completed",
                      !.lastScanTime = resp.timestamp]
    ELSE [prev EXCEPT !.scanProgress = resp.progress]

\* mutant: a failed poll stops the interval
PollResponseStopsOnFailure(req, s, resp) ==
    /\ req \in InFlight(pollReqs)
    /\ resp \in ProgressRoute(s)
    /\ ProgressServed(req, resp)
    /\ pollReqs' = Answered(pollReqs, req)
    /\ IF ~(resp.parses /\ resp.ok)
       THEN /\ lastOp' = "pollFailed"
            /\ timers' = ClearPolling(timers, scanPollingInterval).timers
            /\ scanPollingInterval' = NoTimer
            /\ UNCHANGED <<dataSource, isScanning, cleanup, finished>>
       ELSE LET ds == PolledDataSource(dataSource, resp)
                done == resp.progress >= ProgressDone
                c == IF done THEN ClearPolling(timers, scanPollingInterval)
                     ELSE [timers |-> timers, ref |-> scanPollingInterval]
                e == PollingEffect(dataSource, ds, c.timers, c.ref, cleanup)
            IN  /\ dataSource' = ds
                /\ isScanning' = IF done THEN FALSE ELSE isScanning
                /\ timers' = e.timers
                /\ scanPollingInterval' = e.ref
                /\ cleanup' = e.cleanup
                /\ finished' = IF done THEN finished \cup {req.body.jobId} ELSE finished
                /\ lastOp' = "pollOk"
    /\ alert' = ""
    /\ answered' = req.body
    /\ settled' = s
    /\ called' = ToolCall("scan_progress", ProgressToolArgs(req.body))
    /\ UNCHANGED <<dataSrcId, connectionForm, isConnecting, connectReqs, scanReqs,
                   issued>>
    /\ UNCHANGED retryVars
    /\ UNCHANGED queryVars

\* ---- the interval callback from the response on
PollResponse(req, s, resp) ==
    /\ req \in InFlight(pollReqs)
    /\ resp \in ProgressRoute(s)
    /\ ProgressServed(req, resp)
    /\ pollReqs' = Answered(pollReqs, req)
    /\ IF ~(resp.parses /\ resp.ok)
       THEN /\ lastOp' = "pollFailed"
            /\ UNCHANGED <<dataSource, isScanning, scanPollingInterval,
                           timers, cleanup, finished>>
       ELSE LET ds == PolledDataSource(dataSource, resp)
                done == resp.progress >= ProgressDone
                c == IF done THEN ClearPolling(timers, scanPollingInterval)
                     ELSE [timers |-> timers, ref |-> scanPollingInterval]
                e == PollingEffect(dataSource, ds, c.timers, c.ref, cleanup)
            IN  /\ dataSource' = ds
                /\ isScanning' = IF done THEN FALSE ELSE isScanning
                /\ timers' = e.timers
                /\ scanPollingInterval' = e.ref
                /\ cleanup' = e.cleanup
                /\ finished' = IF done THEN finished \cup {req.body.jobId} ELSE finished
                /\ lastOp' = "pollOk"
    /\ alert' = ""
    /\ answered' = req.body
    /\ settled' = s
    /\ called' = ToolCall("scan_progress", ProgressToolArgs(req.body))
    /\ UNCHANGED <<dataSrcId, connectionForm, isConnecting, connectReqs, scanReqs,
                   issued>>
    /\ UNCHANGED retryVars
    /\ UNCHANGED queryVars

\* ---- the interval callback when its fetch rejects or the body does not
\* reach it: the catch only logs
PollFetchRejected(req, e) ==
    /\ req \in InFlight(pollReqs)
    /\ pollReqs' = Answered(pollReqs, req)
    /\ lastOp' = "pollNetworkError"
    /\ answered' = req.body
    /\ settled' = Pending
    /\ called' = NoCall
    /\ alert' = ""
    /\ UNCHANGED <<dataSource, dataSrcId, connectionForm, isConnecting,
                   isScanning, scanPollingInterval, timers, cleanup,
                   connectReqs, scanReqs, issued, finished>>
    /\ UNCHANGED retryVars
    /\ UNCHANGED queryVars

(***************************************************************************)
(* The page: the conversation (handleSubmit)                               *)
(***************************************************************************)
\* what the textarea can hold: a string is the sequence of its characters
Inputs == {<<>>, <<" ">>, <<"q">>, <<"r">>, <<" ", "q", " ">>}

\* String.prototype.trim
RECURSIVE TrimStart(_)
TrimStart(str) ==
    IF str # <<>> /\ Head(str) = " " THEN TrimStart(Tail(str)) ELSE str

RECURSIVE TrimEnd(_)
TrimEnd(str) ==
    IF str # <<>> /\ str[Len(str)] = " "
    THEN TrimEnd(SubSeq(str, 1, Len(str) - 1))
    ELSE str

Trim(str) == TrimEnd(TrimStart(str))

\* fetch itself rejecting
FetchErrors == {"Failed to fetch"}

\* the Message objects (id and timestamp are readings of the clock)
UserMessage(text) ==
    [type |-> "user", content |-> text, data |-> UNDEFINED, sql |-> UNDEFINED]

\* mutant: the sql of the result dropped
AssistantMessageNoSql(result) ==
    [type |-> "assistant",
     content |-> IF result.response # UNDEFINED THEN result.response
                 ELSE "Here are your results:",
     data |-> result.data, sql |-> UNDEFINED]

\* content: result.response || "Here are your results:", data: result.data, sql: result.sql
AssistantMessage(result) ==
    [type |-> "assistant",
     content |-> IF result.response # UNDEFINED THEN result.response
                 ELSE "Here are your results:",
     data |-> result.data, sql |-> result.sql]

ErrorMessage(msg) ==
    [type |-> "assistant",
     content |-> "Sorry, I encountered an error: " \o msg \o ". Please try again.",
     data |-> UNDEFINED, sql |-> UNDEFINED]

\* new Error(`Failed to process query: ${response.status}`)
QueryFailure(resp) == "Failed to process query: " \o ToString(resp.status)

\* body: JSON.stringify({ dataSrcId: dataSrcId.current, query: userMessage.content })
QueryRequestBody(id, text) == [dataSrcId |-> id, query |-> text]

\* the textarea is disabled={isLoading}; Enter in it calls handleSubmit
QueryControlAvailable == ~isLoading

\* ---- the textarea's onChange
SetInput(v) ==
    /\ input' = v
    /\ lastOp' = "setInput"
    /\ answered' = NoRequest
    /\ settled' = Pending
    /\ called' = NoCall
    /\ alert' = ""
    /\ UNCHANGED <<messages, isLoading, queryReqs>>
    /\ UNCHANGED <<retryVars, pageState>>

\* mutant: the loading flag not looked at
SubmitRejectedBlankOnly(in, loading) == Trim(in) = <<>>

\* if (!input.trim() || isLoading) return
\* mutant: blank input is let through
SubmitRejectedLoadingOnly(in, loading) == loading

SubmitRejected(in, loading) == Trim(in) = <<>> \/ loading

\* the model lets one more submission through
MaySubmit ==
    Cardinality({i \in DOMAIN messages : messages[i].type = "user"}) < MaxQueries

\* ---- handleSubmit, up to the await of fetch
HandleSubmit ==
    /\ IF SubmitRejected(input, isLoading)
       THEN /\ lastOp' = "submitRejected"
            /\ UNCHANGED queryVars
       ELSE /\ MaySubmit
            /\ messages' = Append(messages, UserMessage(Trim(input)))
            /\ input' = <<>>
            /\ isLoading' = TRUE
            /\ queryReqs' = Sent(queryReqs,
                                 [body |-> QueryRequestBody(dataSrcId, Trim(input))])
            /\ lastOp' = "handleSubmit"
    /\ answered' = NoRequest
    /\ settled' = Pending
    /\ called' = NoCall
    /\ alert' = ""
    /\ UNCHANGED <<retryVars, pageState>>

\* mutant: the flag left set
LoadingAfterQueryStuck == TRUE

\* finally { setIsLoading(false) }
LoadingAfterQuery == FALSE

\* ---- handleSubmit from the response on, for the request req in flight
QueryResponse(req, s) ==
    /\ req \in InFlight(queryReqs)
    /\ queryReqs' = Answered(queryReqs, req)
    /\ LET resp == QueryRoute(s, req.body)
       IN  IF ~resp.ok
           THEN /\ messages' = Append(messages, ErrorMessage(QueryFailure(resp)))
                /\ lastOp' = "queryFailed"
           ELSE /\ messages' = Append(messages, AssistantMessage(resp))
                /\ lastOp' = "queryOk"
    /\ isLoading' = LoadingAfterQuery
    /\ answered' = req.body
    /\ settled' = s
    /\ called' = ToolCall("query", QueryToolArgs(req.body))
    /\ alert' = ""
    /\ UNCHANGED input
    /\ UNCHANGED <<retryVars, pageState>>

\* ---- handleSubmit when the await of fetch rejects with error e
QueryFetchRejected(req, e) ==
    /\ req \in InFlight(queryReqs)
    /\ queryReqs' = Answered(queryReqs, req)
    /\ messages' = Append(messages, ErrorMessage(e))
    /\ lastOp' = "queryNetworkError"
    /\ isLoading' = LoadingAfterQuery
    /\ answered' = req.body
    /\ settled' = Pending
    /\ called' = NoCall
    /\ alert' = ""
    /\ UNCHANGED input
    /\ UNCHANGED <<retryVars, pageState>>

\* the conversation as the user drives it
NextQuery ==
    \/ \E v \in Inputs : QueryControlAvailable /\ SetInput(v)
    \/ QueryControlAvailable /\ HandleSubmit
    \/ \E req \in InFlight(queryReqs), s \in Settlements("query") :
          QueryResponse(req, s)
    \/ \E req \in InFlight(queryReqs), e \in FetchErrors :
          QueryFetchRejected(req, e)

\* the conversation, and its handlers called while the textarea is disabled
NextQueryHandlers ==
    \/ NextQuery
    \/ \E v \in Inputs : ~QueryControlAvailable /\ SetInput(v)
    \/ ~QueryControlAvailable /\ HandleSubmit

\* the page as the user drives it: handlers run from the rendered controls
Next ==
    \/ \E v \in FormTypes \cup {""} : EditForm("type", v)
    \/ \E v \in FormHosts \cup {""} : EditForm("host", v)
    \/ \E v \in FormUsernames \cup {""} : EditForm("username", v)
    \/ \E v \in FormPasswords \cup {""} : EditForm("password", v)
    \/ ConnectControlAvailable /\ HandleConnect
    \/ \E req \in InFlight(connectReqs), s \in Settlements("connect_datasource") :
          ConnectResponse(req, s)
    \/ ConnectedPanelRendered /\ HandleDisconnect
    \/ ScanControlAvailable /\ HandleScan
    \/ \E req \in InFlight(scanReqs), s \in Settlements("scan_datasource") :
          ScanResponse(req, s)
    \/ \E t \in timers : PollTick(t)
    \/ \E req \in InFlight(pollReqs), s \in Settlements("scan_progress") :
          \E resp \in ProgressRoute(s) : PollResponse(req, s, resp)
    \/ \E req \in InFlight(pollReqs), e \in FetchErrors : PollFetchRejected(req, e)

\* the page, and handleScan called where its control is not rendered
NextHandlers ==
    \/ Next
    \/ ~ConnectedPanelRendered /\ HandleScan

\* a scan is polling: an interval is active
Polling == timers # {}

\* the page, and handleConnect called again while a scan is polling (the form
\* is not rendered then: the record stays connected once it is)
NextReconnect ==
    \/ Next
    \/ ~ConnectFormRendered /\ ~isConnecting /\ Polling /\ HandleConnect

\* the first scan of the page
FirstScan == scanReqs = EmptyBag /\ issued = {}

\* the connection panel and the conversation on one page: a query typed and
\* submitted while the first scan is being polled
NextMixed ==
    \/ \E v \in FormTypes : EditForm("type", v)
    \/ \E v \in FormHosts : EditForm("host", v)
    \/ ConnectControlAvailable /\ HandleConnect
    \/ \E req \in InFlight(connectReqs), s \in Settlements("connect_datasource") :
          ConnectResponse(req, s)
    \/ ScanControlAvailable /\ FirstScan /\ HandleScan
    \/ \E req \in InFlight(scanReqs), s \in Settlements("scan_datasource") :
          ScanResponse(req, s)
    \/ \E t \in timers : PollTick(t)
    \/ \E req \in InFlight(pollReqs), s \in Settlements("scan_progress") :
          \E resp \in ProgressRoute(s) : PollResponse(req, s, resp)
    \/ Polling /\ QueryControlAvailable /\ SetInput(<<"q">>)
    \/ Polling /\ QueryControlAvailable /\ HandleSubmit
    \/ \E req \in InFlight(queryReqs), s \in Settlements("query") : QueryResponse(req, s)
    \/ \E req \in InFlight(queryReqs), e \in FetchErrors : QueryFetchRejected(req, e)

Spec == Init /\ [][Next]_vars

SpecMixed == Init /\ [][NextMixed]_vars

SpecHandlers == Init /\ [][NextHandlers]_vars

SpecReconnect == Init /\ [][NextReconnect]_vars

SpecQuery == Init /\ [][NextQuery]_vars

SpecQueryHandlers == Init /\ [][NextQueryHandlers]_vars

\* one call of callMCPServerWithRetry against every behaviour of the remote service
SpecRetry == Init /\ [][RetryNext]_vars

\* the steps of a call under way: an attempt settles, a backoff timer fires
RetryStep ==
    \/ \E conn \in {"ok"} \cup TransportErrors,
          list \in {"ok"} \cup TransportErrors,
          tools \in ToolLists,
          callr \in {"ok"} \cup TransportErrors,
          res \in ToolResults(toolName) :
            Attempt(conn, list, tools, callr, res)
    \/ Backoff

\* callMCPServerWithRetry when every awaited promise settles: each attempt
\* completes and each setTimeout fires
SpecRetryLive == Init /\ [][RetryNext]_vars /\ WF_vars(RetryStep)

(***************************************************************************)
(* callMCPServerWithRetry: the claims, under SpecRetry                     *)
(***************************************************************************)
\* the call is over with an error raised to the caller
Raised == pc = "done" /\ outcome.kind = "thrown"

\* C1: when the remote service's tool list lacks the tool, the call fails with
\* the tool-not-found error after exactly one attempt: no retry, no backoff delay.
C1_ToolNotFoundNotRetried ==
    (Len(errors) >= 1 /\ errors[1] = ToolNotFound(toolName)) =>
        /\ attempts = 1
        /\ delays = <<>>
        /\ Raised
        /\ outcome.error = ToolNotFound(toolName)

\* C2: with maxRetries >= 1 a call makes at most maxRetries attempts, exactly
\* maxRetries when every attempt fails, and the failure of attempt number
\* maxRetries is re-raised instead of being followed by a backoff and a retry.
C2_AtMostMaxRetriesAttempts ==
    maxRetries >= 1 =>
        /\ attempts <= maxRetries
        /\ (pc = "done" /\ Len(errors) = attempts) => attempts = maxRetries
        /\ Len(errors) = maxRetries => Raised
        /\ pc = "backoff" => Len(errors) < maxRetries

C2_Witness ==
    /\ Raised
    /\ maxRetries = DefaultMaxRetries
    /\ attempts = 3
    /\ \A k \in 1..Len(errors) : errors[k] \in TransportErrors

\* the backoff delays of a call whose attempts all fail, in ms
ExpectedDelays == <<2000, 4000, 8000, 16000, 32000>>

\* C3: the delay waited before attempt k (k = 2..maxRetries) is 2^(k-1) seconds,
\* so the delays strictly increase; no delay follows the final failed attempt;
\* three failures wait 2 s + 4 s in all.
C3_BackoffDoubles ==
    /\ \A k \in 1..Len(delays) : delays[k] = ExpectedDelays[k]
    /\ \A k \in 1..(Len(delays) - 1) : delays[k] < delays[k + 1]
    /\ Len(delays) = IF Raised THEN Len(errors) - 1 ELSE Len(errors)
    /\ pc = "try" => Len(delays) = attempt - 1
    /\ pc = "backoff" => Len(delays) = attempt
    /\ (Raised /\ maxRetries = 3) => delays = <<2000, 4000>>

C3_Witness ==
    /\ Raised
    /\ maxRetries = 3
    /\ attempts = 3
    /\ delays[1] + delays[2] = 6000

\* C4: when every attempt fails, the error raised to the caller is the error of
\* attempt number maxRetries itself, not a wrapper and not an earlier attempt's.
C4_FinalErrorPropagated ==
    Raised =>
        /\ Len(errors) = maxRetries
        /\ outcome.error = errors[maxRetries]

C4_Witness ==
    /\ Raised
    /\ maxRetries = 3
    /\ errors[1] # errors[3]
    /\ errors[2] # errors[3]
    /\ outcome.error = errors[3]

(***************************************************************************)
(* The page: the claims                                                    *)
(***************************************************************************)
\* the last step handled the response of a tool call that failed: retries
\* exhausted, or a result without the structuredContent envelope (isError)
ToolCallFailed == settled.kind = "thrown" \/ ~settled.result.envelope

\* C5: the identifier is set exactly when the connection is connected, and
\* after handleDisconnect the identifier is absent and connected is false.
C5_IdentifierIffConnected ==
    /\ (dataSrcId # NULL) <=> dataSource.connected
    /\ lastOp = "handleDisconnect" => (dataSrcId = NULL /\ ~dataSource.connected)

\* C6: a failed connect attempt leaves the connection not connected and stores
\* no identifier.
C6_FailedConnectStoresNothing ==
    (lastOp \in {"connectOk", "connectFailed"} /\ ToolCallFailed) =>
        /\ ~dataSource.connected
        /\ dataSrcId = NULL
        /\ ~isConnecting
        /\ alert = "Connection failed"

C6_Witness ==
    /\ lastOp = "connectFailed"
    /\ settled = Thrown("ETIMEDOUT")
    /\ answered.password \in FormPasswords
    /\ ~dataSource.connected

\* the connection record has no password field and none of its fields holds one
DataSourceHoldsNoSecret ==
    /\ "password" \notin DOMAIN dataSource
    /\ \A f \in {"type", "host", "username", "lastScanTime", "scanJobId", "scanStatus"} :
          dataSource[f] \notin FormPasswords

C8_DisconnectClearsScanState ==
    [][lastOp' = "handleDisconnect" =>
          /\ UNCHANGED <<connectReqs, scanReqs, pollReqs>>
          /\ dataSource'.scanJobId = NULL
          /\ dataSource'.scanProgress = NoProgress
          /\ dataSource'.scanStatus = NULL
          /\ timers' = {}
          /\ scanPollingInterval' = NoTimer]_vars

\* C9: handleScan called while not connected is rejected: no request leaves
\* and neither the connection nor the scan state changes.
C9_ScanRejectedWhenNotConnected ==
    [][(~dataSource.connected /\ lastOp' \in {"scanRejected", "handleScan"}) =>
          /\ lastOp' = "scanRejected"
          /\ alert' = "Please connect to a database first"
          /\ UNCHANGED <<connectReqs, scanReqs, pollReqs>>
          /\ UNCHANGED <<dataSource, dataSrcId, connectionForm, isConnecting,
                         isScanning, scanPollingInterval, timers, cleanup>>]_vars

C9_Witness ==
    /\ lastOp = "scanRejected"
    /\ ~dataSource.connected
    /\ scanReqs = EmptyBag

\* C10: handleScan on a connected connection sends the current data_src_id, and
\* when the scan_datasource call succeeds the returned job_id is stored, the
\* scan status becomes in_progress and the progress 0.
C10_ScanStartStoresJob ==
    [][/\ lastOp' = "handleScan" =>
             /\ dataSource.connected
             /\ BagCardinality(scanReqs') = BagCardinality(scanReqs) + 1
             /\ BagIn([body |-> [dataSrcId |-> dataSrcId], dataSource |-> dataSource],
                      scanReqs')
       /\ \A r \in InFlight(scanReqs') : r.body.dataSrcId = dataSrcId'
       /\ (lastOp' \in {"scanOk", "scanFailed"} /\ ~ToolCallFailed') =>
             /\ dataSource'.scanJobId = settled'.result.structuredContent.job_id
             /\ dataSource'.scanStatus = "in_progress"
             /\ dataSource'.scanProgress = 0
             /\ answered'.dataSrcId = dataSrcId'
             /\ dataSrcId' \in DataSrcIds]_vars

C10_Witness ==
    /\ lastOp = "scanOk"
    /\ answered.dataSrcId = "ds_1"
    /\ settled.result.structuredContent.job_id = "job_2"
    /\ dataSource.scanJobId = "job_2"
    /\ dataSource.scanProgress = 0
    /\ dataSource.scanStatus = "in_progress"

(***************************************************************************)
(* Scan polling: the claims                                                *)
(***************************************************************************)
\* the poll request a tick of a timer for job id sends
TickSends(id) ==
    \E f \in Progresses :
        pollReqs' = Sent(pollReqs, [body |-> [jobId |-> id], floor |-> f])

\* C11: once a poll response reports progress >= 100, the scan status becomes
\* completed, lastScanTime is that response's timestamp and the polling timer
\* is cancelled; afterwards no timer is left for the job and no tick asks for
\* its progress again.
C11_CompletionEndsPolling ==
    [][/\ (lastOp' = "pollOk"
             /\ settled'.result.structuredContent.progress >= ProgressDone) =>
             /\ dataSource'.scanStatus = "completed"
             /\ dataSource'.scanProgress = settled'.result.structuredContent.progress
             /\ dataSource'.lastScanTime = settled'.result.structuredContent.timestamp
             /\ timers' = {}
             /\ scanPollingInterval' = NoTimer
             /\ ~isScanning'
             /\ answered'.jobId \in finished'
       /\ \A t \in timers' : t.jobId \notin finished'
       /\ lastOp' = "pollTick" => \E id \in JobIds \ finished : TickSends(id)]_vars

C11_Witness ==
    /\ lastOp = "pollOk"
    /\ answered.jobId = "job_1"
    /\ settled.result.structuredContent.progress = 100
    /\ dataSource.scanStatus = "completed"
    /\ dataSource.lastScanTime = "t1"
    /\ finished = {"job_1"}
    /\ timers = {}

\* C12: when the scan_progress call of a poll tick fails with its retries
\* exhausted, the scan job is marked failed and the polling timer is cancelled.
C12_FailedPollMarksFailed ==
    [][(lastOp' = "pollFailed" /\ settled'.kind = "thrown") =>
          /\ dataSource'.scanStatus = "failed"
          /\ timers' = {}
          /\ scanPollingInterval' = NoTimer]_vars

\* C13: at most one polling timer is active, the one scanPollingInterval holds.
C13_AtMostOneTimer ==
    /\ Cardinality(timers) <= 1
    /\ \A t \in timers : t.id = scanPollingInterval
    /\ timers = {} <=> scanPollingInterval = NoTimer

C13_Witness ==
    /\ lastOp = "scanOk"
    /\ issued = JobIds
    /\ dataSource.scanJobId = "job_2"
    /\ Cardinality(timers) = 1
    /\ scanPollingInterval # NoTimer

\* C14: every poll request a tick sends carries the job id stored in the
\* connection record, and no timer is left polling another job id.
C14_PollsCarryStoredJob ==
    [][/\ lastOp' = "pollTick" => TickSends(dataSource.scanJobId)
       /\ \A t \in timers' : t.jobId = dataSource'.scanJobId]_vars

\* C15: while a scan job is in_progress, a poll response for that job never
\* lowers the stored progress, whatever the order the responses arrive in.
C15_ProgressNeverDecreases ==
    [][(lastOp' = "pollOk"
          /\ dataSource.scanStatus = "in_progress"
          /\ answered'.jobId = dataSource.scanJobId) =>
          dataSource'.scanProgress >= dataSource.scanProgress]_vars

C17_InFlightResultDiscarded ==
    [][(lastOp = "handleDisconnect"
          /\ lastOp' \in {"connectOk", "connectFailed", "scanOk", "scanFailed",
                          "pollOk", "pollFailed"}) =>
          UNCHANGED <<dataSource, dataSrcId>>]_vars

(***************************************************************************)
(* The conversation: the claims                                            *)
(***************************************************************************)
\* the last entry of the transcript
LastMessage(msgs) == msgs[Len(msgs)]

\* C18: for every successful query, handleSubmit appends one assistant entry
\* whose sql and data are exactly those of the tool payload's structured
\* content, changed neither by the query route nor by the page.
C18_ResultSurfacedVerbatim ==
    [][(lastOp' \in {"queryOk", "queryFailed"} /\ ~ToolCallFailed') =>
          /\ lastOp' = "queryOk"
          /\ messages' = Append(messages,
                [type |-> "assistant", content |-> "Here are your results:",
                 data |-> settled'.result.structuredContent.data,
                 sql |-> settled'.result.structuredContent.sql])]_vars

C18_Witness ==
    /\ lastOp = "queryOk"
    /\ settled.result.structuredContent = [sql |-> "SELECT 2", data |-> "[{n: 1}]"]
    /\ answered.query = <<"q">>
    /\ LastMessage(messages).sql = "SELECT 2"
    /\ LastMessage(messages).data = "[{n: 1}]"

\* C19: when a query submission fails (the request errors or the response is
\* not 2xx), handleSubmit appends exactly one assistant entry carrying the
\* error message, clears the loading flag, and the next submission is accepted.
C19_FailureIsSoft ==
    [][/\ (lastOp' \in {"queryOk", "queryFailed"} /\ ToolCallFailed') =>
             /\ lastOp' = "queryFailed"
             /\ LastMessage(messages').content =
                   "Sorry, I encountered an error: Failed to process query: 500. Please try again."
       /\ lastOp' = "queryNetworkError" =>
             LastMessage(messages').content =
                   "Sorry, I encountered an error: Failed to fetch. Please try again."
       /\ lastOp' \in {"queryFailed", "queryNetworkError"} =>
             /\ Len(messages') = Len(messages) + 1
             /\ SubSeq(messages', 1, Len(messages)) = messages
             /\ LastMessage(messages').type = "assistant"
             /\ LastMessage(messages').data = UNDEFINED
             /\ ~isLoading'
             /\ \A v \in Inputs : Trim(v) # <<>> => ~SubmitRejected(v, isLoading')]_vars

C19_Witness ==
    /\ lastOp = "handleSubmit"
    /\ Len(messages) = 3
    /\ messages[2].content =
          "Sorry, I encountered an error: Failed to process query: 500. Please try again."
    /\ messages[3] = UserMessage(<<"r">>)
    /\ isLoading

\* C20 as claimed: a second submission is accepted while an earlier one has
\* not completed, so that several query requests are in flight at once.
C20_SubmissionsOverlap ==
    [][(lastOp' \in {"handleSubmit", "submitRejected"}
          /\ Trim(input) # <<>>
          /\ queryReqs # EmptyBag) =>
          /\ lastOp' = "handleSubmit"
          /\ BagCardinality(queryReqs') = BagCardinality(queryReqs) + 1]_vars

\* C20 as amended: at most one query submission is in flight: handleSubmit
\* called while an earlier submission has not completed returns without
\* sending and without touching the transcript, so user and assistant entries
\* alternate, in submission order.
C20_OneSubmissionAtATime ==
    [][/\ BagCardinality(queryReqs') <= 1
       /\ isLoading' <=> queryReqs' # EmptyBag
       /\ (lastOp' \in {"handleSubmit", "submitRejected"} /\ queryReqs # EmptyBag) =>
             /\ lastOp' = "submitRejected"
             /\ UNCHANGED <<messages, input, isLoading, queryReqs>>
       /\ \A i \in DOMAIN messages' :
             messages'[i].type = IF i % 2 = 1 THEN "user" ELSE "assistant"
       /\ lastOp' \in {"queryOk", "queryFailed", "queryNetworkError"} =>
             /\ messages[Len(messages)] = UserMessage(answered'.query)
             /\ Len(messages') = Len(messages) + 1]_vars

C20_Witness ==
    /\ lastOp = "submitRejected"
    /\ isLoading
    /\ Trim(input) # <<>>
    /\ BagCardinality(queryReqs) = 1
    /\ Len(messages) = 3

\* the steps of the query flow, and those of a poll response
QuerySteps ==
    {"setInput", "handleSubmit", "submitRejected", "queryOk", "queryFailed",
     "queryNetworkError"}
PollResponseSteps == {"pollOk", "pollFailed"}

\* the fields of the record a poll response may write
ScanFields == {"scanProgress", "scanStatus", "lastScanTime"}

\* C21: submitting a query never changes the connection record: however
\* handleSubmit and its response interleave with an active scan poll, they
\* leave dataSource and dataSrcId as they are; and a poll response changes
\* only scanProgress, scanStatus and lastScanTime of the record, never the
\* transcript, the input or the loading flag.
C21_QueryAndPollDisjoint ==
    [][/\ lastOp' \in QuerySteps => UNCHANGED <<dataSource, dataSrcId>>
       /\ lastOp' \in PollResponseSteps =>
             /\ UNCHANGED <<messages, input, isLoading, queryReqs, dataSrcId>>
             /\ DOMAIN dataSource' = DOMAIN dataSource
             /\ \A f \in DOMAIN dataSource \ ScanFields :
                   dataSource'[f] = dataSource[f]]_vars

\* a poll response stored the completion while a query was in flight
C21_Witness ==
    /\ lastOp = "pollOk"
    /\ dataSource.scanStatus = "completed"
    /\ isLoading
    /\ queryReqs # EmptyBag
    /\ pollReqs # EmptyBag

\* C22: a query submitted while no data source identifier is set is rejected
\* synchronously: handleSubmit sends no query request while dataSrcId is absent.
C22_NoIdentifierNoRequest ==
    [][(lastOp' \in {"handleSubmit", "submitRejected"} /\ dataSrcId = NULL) =>
          /\ lastOp' = "submitRejected"
          /\ UNCHANGED queryReqs]_vars

\* the tool executed the call and reported a failure: a result flagged isError
DomainFailure(o) == o.kind = "returned" /\ o.result.isError

\* C23: a failure the tool reports for a call it executed is not retried:
\* the attempt that receives it is the last, no backoff is waited for, the
\* result reaches the caller as reported, and nothing the function retried
\* after was such a failure.
C23_DomainFailureNotRetried ==
    [][/\ (pc = "try" /\ DomainFailure(outcome')) =>
             /\ attempts' = attempts + 1
             /\ pc' = "done"
             /\ UNCHANGED <<errors, delays, attempt>>
             /\ outcome'.result \in ToolResults(toolName)
       /\ \A i \in DOMAIN errors' :
             errors'[i] \in TransportErrors \cup {ToolNotFound(toolName')}
       /\ Len(delays') = Len(errors') \/ Len(delays') = Len(errors') - 1
       /\ (pc' = "done" /\ pc = "try" /\ errors' = <<>> /\ maxRetries >= 1) =>
             /\ attempts' = 1
             /\ outcome'.kind = "returned"]_vars

\* the first attempt was answered with a failure of the tool
C23_Witness ==
    /\ pc = "done"
    /\ DomainFailure(outcome)
    /\ attempts = 1
    /\ errors = <<>>
    /\ delays = <<>>

\* the tool call behind the handled response returned a result without the
\* structuredContent envelope
NoEnvelope(s) == s.kind = "returned" /\ ~s.result.envelope

\* a response made by the route: a JSON body with an error, not 2xx
IsErrorAnswer(resp) ==
    ~resp.ok /\ resp.parses /\ resp.error \notin {NULL, UNDEFINED}

\* C24: in the connect, scan-start, scan-progress and query routes a tool
\* result without the structuredContent envelope is answered with a JSON body
\* carrying an error and a status that is not 2xx, never with a success, and
\* the page stores no identifier, job id, progress or query result from it.
C24_NoEnvelopeIsAnError ==
    [][(called'.tool # NULL /\ NoEnvelope(settled')) =>
          /\ \A resp \in RouteResponses(called'.tool, settled', answered') :
                IsErrorAnswer(resp)
          /\ UNCHANGED <<dataSource, dataSrcId>>
          /\ called'.tool = "query" => LastMessage(messages').data = UNDEFINED]_vars

\* C25: the arguments of the connect_datasource tool call are exactly
\* {type, conn_params: {host, user, password}}: the username typed into the form
\* travels under the key user, and conn_params has no other key.
C25_ConnectArgsShape ==
    called.tool = "connect_datasource" =>
        called.args = [type |-> answered.type,
                       conn_params |-> [host |-> answered.host,
                                        user |-> answered.username,
                                        password |-> answered.password]]

C27_AttemptsSequential ==
    [][/\ attempts' = attempts + 1 =>
             /\ pc = "try"
             /\ attempt = attempts + 1
             /\ Len(errors) = attempts
             /\ Len(delays) = attempts
             /\ \A k \in DOMAIN delays : delays[k] = BackoffMs(k)
       /\ attempts' \in {attempts, attempts + 1}
       /\ (pc = "backoff" \/ pc = "done") => attempts' = attempts
       /\ pc' = "backoff" => (pc = "try" /\ Len(delays') = attempts')]_vars

\* the third attempt has started after two failures and two backoffs
C27_Witness ==
    /\ pc = "done"
    /\ attempts = 3
    /\ Len(errors) = 3
    /\ Len(delays) = 2
    /\ outcome.kind = "thrown"

\* C28: the call returns the result of the first attempt that succeeds and
\* makes no attempt after it: when attempts 1..k-1 failed and attempt
\* k <= maxRetries succeeds, the caller receives that result and no error,
\* after exactly k attempts.
C28_FirstSuccessReturned ==
    [][/\ (pc = "try" /\ outcome'.kind = "returned") =>
             /\ attempts' = attempt
             /\ attempts' <= maxRetries
             /\ outcome'.result \in ToolResults(toolName)
             /\ UNCHANGED <<errors, delays>>
       /\ outcome'.kind = "returned" =>
             /\ pc' = "done"
             /\ attempts' = Len(errors') + 1
             /\ Len(delays') = Len(errors')
       /\ outcome.kind = "returned" => UNCHANGED <<outcome, attempts, errors>>]_vars

\* two attempts failed, the third succeeded
C28_Witness ==
    /\ pc = "done"
    /\ outcome.kind = "returned"
    /\ outcome.result.envelope
    /\ attempts = 3
    /\ Len(errors) = 2
    /\ Len(delays) = 2

\* the call has been entered; it has completed
Called == pc # "idle"
Completed == pc = "done"

\* C29 as claimed: every call eventually completes, and it completes with a
\* result or with a raised error.
C29_CompletesWithResultOrError ==
    /\ [](Completed => outcome.kind \in {"returned", "thrown"})
    /\ Called ~> Completed

\* C29 as amended: every call eventually completes, whatever the service
\* answers; it completes with a result or a raised error when maxRetries >= 1,
\* and with neither (undefined, no attempt made) when maxRetries = 0.
C29_EventuallyCompletes ==
    /\ Called ~> Completed
    /\ [](Completed =>
             IF maxRetries >= 1
             THEN outcome.kind \in {"returned", "thrown"} /\ attempts \in 1..maxRetries
             ELSE outcome = ReturnedUndefined /\ attempts = 0)
    /\ [](attempts <= maxRetries /\ Len(delays) <= maxRetries)

\* a call that ended after one failure, one backoff and a successful attempt
C29_Witness ==
    /\ Completed
    /\ maxRetries = 2
    /\ attempts = 2
    /\ Len(errors) = 1
    /\ delays = <<2000>>
    /\ outcome.kind = "returned"

\* C30: whenever the scan status is in_progress a polling timer is active for
\* the stored job: every successful handleScan, also a second scan after an
\* earlier one finished and whatever scanProgress held before, is followed by
\* an interval polling the job it stored.
C30_InProgressHasTimer ==
    dataSource.scanStatus = "in_progress" =>
        \E t \in timers : t.jobId = dataSource.scanJobId

\* C31: in every reachable state whose scan status is completed the stored
\* progress is >= 100: a poll response arriving after the job was marked
\* completed cannot lower scanProgress below 100.
C31_CompletedKeepsFullProgress ==
    dataSource.scanStatus = "completed" => dataSource.scanProgress >= ProgressDone

\* C32: a poll response is applied only to the job it was issued for: a
\* response to a poll of an earlier job that arrives when a newer job is stored
\* changes neither the progress nor the status of the record, sets no
\* lastScanTime and does not clear isScanning.
C32_StaleResponseIgnored ==
    [][(lastOp' \in {"pollOk", "pollFailed"}
          /\ answered'.jobId # dataSource.scanJobId) =>
          UNCHANGED <<dataSource, isScanning>>]_vars

\* a poll whose request failed: a response that is not ok or does not parse,
\* or a fetch that rejected
FailedPollSteps == {"pollFailed", "pollNetworkError"}

\* C33: a poll tick whose request fails (response not 2xx, fetch or parse
\* error thrown) leaves the connection record, the scan status and isScanning
\* as they are and the polling timer active: nothing is alerted, and the
\* interval and its handle are those of before, so the next tick polls again.
C33_FailedPollChangesNothing ==
    [][lastOp' \in FailedPollSteps =>
          /\ UNCHANGED <<dataSource, dataSrcId, isScanning, timers,
                         scanPollingInterval, cleanup, scanReqs, finished>>
          /\ BagCardinality(pollReqs') = BagCardinality(pollReqs) - 1
          /\ alert' = ""]_vars

\* the tool call behind a poll failed while the scan is in progress and its
\* interval active
C33_Witness ==
    /\ lastOp = "pollFailed"
    /\ settled.kind = "thrown"
    /\ dataSource.scanStatus = "in_progress"
    /\ dataSource.scanProgress = 30
    /\ \E t \in timers : t.id = scanPollingInterval /\ t.jobId = dataSource.scanJobId

\* C34: at most one query is in flight at a time: handleSubmit returns without
\* a request and without changing the transcript when isLoading is true or the
\* input is blank; isLoading is true exactly while a query request is in
\* flight; so every user entry of the transcript is followed by exactly one
\* assistant entry, result or error, before the next user entry.
C34_OneQueryInFlight ==
    [][/\ BagCardinality(queryReqs') <= 1
       /\ isLoading' = (BagCardinality(queryReqs') = 1)
       /\ lastOp' \in {"handleSubmit", "submitRejected"} =>
             IF isLoading \/ Trim(input) = <<>>
             THEN /\ lastOp' = "submitRejected"
                  /\ UNCHANGED <<messages, input, isLoading, queryReqs>>
             ELSE /\ lastOp' = "handleSubmit"
                  /\ messages' = Append(messages, UserMessage(Trim(input)))
                  /\ queryReqs = EmptyBag
                  /\ BagCardinality(queryReqs') = 1
       /\ Len(messages') = 2 * (Len(messages') \div 2) + (IF isLoading' THEN 1 ELSE 0)
       /\ \A i \in DOMAIN messages' :
             /\ i % 2 = 1 => messages'[i].type = "user"
             /\ i % 2 = 0 => messages'[i].type = "assistant"]_vars

\* a blank input was submitted after a completed exchange and was refused
C34_Witness ==
    /\ lastOp = "submitRejected"
    /\ ~isLoading
    /\ input = <<" ">>
    /\ Len(messages) = 2
    /\ queryReqs = EmptyBag

\* C35: at most one scan-start request is in flight at a time and none is sent
\* while the scan status is in_progress: the Scan control is unavailable from
\* the moment a scan start is requested until the job completes.
C35_OneScanStartAtATime ==
    /\ BagCardinality(scanReqs) <= 1
    /\ (scanReqs # EmptyBag \/ dataSource.scanStatus = "in_progress") =>
          ~ScanControlAvailable
    /\ lastOp = "handleScan" => dataSource.scanStatus # "in_progress"

\* C36: called with maxRetries = 0 the function makes no attempt at all and
\* completes with neither a result nor an error, returning undefined; for
\* every maxRetries >= 1 it never completes without a tool result or a raised
\* error.
C36_ZeroRetriesReturnsUndefined ==
    /\ (Called /\ maxRetries = 0) =>
          /\ Completed
          /\ outcome = ReturnedUndefined
          /\ attempts = 0
          /\ errors = <<>>
          /\ delays = <<>>
    /\ (Completed /\ maxRetries >= 1) =>
          /\ outcome.kind \in {"returned", "thrown"}
          /\ attempts >= 1
          /\ outcome.kind = "thrown" <=> Len(errors) = maxRetries
    /\ outcome = ReturnedUndefined => maxRetries = 0

\* the call with maxRetries = 0 has returned
C36_Witness ==
    /\ Completed
    /\ toolName \in ToolNames
    /\ maxRetries = 0
    /\ outcome = ReturnedUndefined
    /\ attempts = 0

====
